---- MODULE Spec2Model ----
(***************************************************************************)
(* Model of Code/matching.py, Code/run_matching.py and Code/SNPMatching.py *)
(* of ViralRecombinant_dev: the genotype table builder (read_ped_file),    *)
(* the pair list extractor (read_recombinant_file), the matcher            *)
(* (find_matching_pairs), the summarizer (summarize_matches) and the       *)
(* command-line entry points.                                              *)
(*                                                                         *)
(* Conventions.                                                            *)
(*  - A Python dict whose iteration order the code uses is a sequence of   *)
(*    <<key, value>> entries in insertion order; a dict that is only       *)
(*    looked up by key is a function.                                      *)
(*  - A sample name is a natural number standing for the name's rank in    *)
(*    Python's string order, so that sorted() is the order <.              *)
(*  - A text token is a record [int, val]: int says whether Python's int() *)
(*    accepts the token, val is the integer it yields.                     *)
(***************************************************************************)
EXTENDS Integers, Sequences, FiniteSets, TLC

VARIABLES
    pc,              \* position of the run
    first_line,      \* read_ped_file: lines[0], or the mark of an empty file
    ped_header,      \* read_ped_file: the ped_header argument
    positions,       \* read_ped_file: header positions, one per column
    pos_indices,     \* read_ped_file: position -> column indexes (ordered dict)
    line,            \* read_ped_file: the data line of the current iteration
    sample_data,     \* genotype table: sample name -> (position -> call)
    columns,         \* read_recombinant_file: df.columns
    df,              \* read_recombinant_file: the rows of the table
    CIHi_filter,     \* read_recombinant_file: the CIHi_filter argument
    row,             \* read_recombinant_file: index of the next row
    pairs,           \* the pair list
    sample_to_pairs, \* find_matching_pairs: ordered dict name -> match tuple
    pairs_to_samples,\* summarize_matches: ordered dict match tuple -> names
    summary,         \* summarize_matches: the rows of the data frame
    program,         \* the script that was started
    argv,            \* sys.argv
    exit_status,     \* status of sys.exit, -1 while none was called
    stdout,          \* what the entry point printed
    main_call,       \* the arguments main() was called with
    data,            \* color_tree: the summary table it is given
    tree,            \* color_tree: the leaves of the tree, in traversal order
    clade,           \* color_tree: index of the leaf of the current iteration
    output_file      \* color_tree: what was written to the output path

vars == <<pc, first_line, ped_header, positions, pos_indices, line, sample_data,
          columns, df, CIHi_filter, row, pairs, sample_to_pairs,
          pairs_to_samples, summary,
          program, argv, exit_status, stdout, main_call,
          data, tree, clade, output_file>>

pedVars == <<first_line, ped_header, positions, pos_indices, line, sample_data>>
pairVars == <<columns, df, CIHi_filter, row, pairs>>
matchVars == <<sample_to_pairs, pairs_to_samples, summary>>
cliVars == <<program, argv, exit_status, stdout, main_call>>
treeVars == <<data, tree, clade, output_file>>

(***************************************************************************)
(* Bounds                                                                  *)
(***************************************************************************)
MaxCols == 2        \* header columns of the genotype file
MaxSamples == 3     \* sample names of a genotype table
MaxPairs == 2       \* entries of a pair list
MaxRows == 2        \* rows of the pair table
MaxArgs == 5        \* command-line arguments after the script name
MaxLeaves == 3      \* leaves of the tree
MaxDataRows == 2    \* rows of the summary table given to color_tree

(***************************************************************************)
(* Generic helpers                                                         *)
(***************************************************************************)
SeqsUpTo(S, n) == UNION {[1..k -> S] : k \in 0..n}

Range(s) == {s[i] : i \in 1..Len(s)}

None == [none |-> TRUE, val |-> 0]
Some(v) == [none |-> FALSE, val |-> v]

(***************************************************************************)
(* Tokens of a text file                                                   *)
(***************************************************************************)
IntTok(n) == [int |-> TRUE, val |-> n]
BadTok == [int |-> FALSE, val |-> 0]

\* [int(t) for t in toks]: the values, or ValueError
AllInt(toks) == \A i \in 1..Len(toks) : toks[i].int
IntValues(toks) == [i \in 1..Len(toks) |-> toks[i].val]

\* str.lower() on the labels the model uses
Lower(s) ==
    CASE s = "Position" -> "position"
      [] s = "POSITION" -> "position"
      [] s = "position" -> "position"
      [] s = "Pos" -> "pos"
      [] s = "pos" -> "pos"
      [] s = "Yes" -> "yes"
      [] s = "No" -> "no"
      [] OTHER -> s

(***************************************************************************)
(* Values of the variables a specification does not use                    *)
(***************************************************************************)
NoLine == [exists |-> FALSE, label |-> "", toks |-> <<>>]
NoDataLine == [name |-> 0, toks |-> <<>>]
NoCall == [ran |-> FALSE, args |-> <<>>, output |-> ""]
NotWritten == [written |-> FALSE, leaves |-> <<>>]

IdlePed ==
    /\ first_line = NoLine
    /\ ped_header = "Position"
    /\ positions = <<>>
    /\ pos_indices = <<>>
    /\ line = NoDataLine

IdlePairs ==
    /\ columns = {}
    /\ df = <<>>
    /\ CIHi_filter = None
    /\ row = 0

IdleMatch ==
    /\ sample_to_pairs = <<>>
    /\ pairs_to_samples = <<>>
    /\ summary = <<>>

IdleCLI ==
    /\ program = ""
    /\ argv = <<>>
    /\ exit_status = -1
    /\ stdout = <<>>
    /\ main_call = NoCall

IdleTree ==
    /\ data = <<>>
    /\ tree = <<>>
    /\ clade = 0
    /\ output_file = NotWritten

(***************************************************************************)
(* read_ped_file (matching.py)                                             *)
(***************************************************************************)
HeaderPositions == {10, 20}
CallValues == {0, 1, -1}
Labels == {"Position", "position", "Pos", ""}
PedSampleNames == {1, 2}

PositionToks == {IntTok(p) : p \in HeaderPositions} \cup {BadTok}
CallToks == {IntTok(c) : c \in CallValues} \cup {BadTok}

\* lines[0] after strip and split: a first token and the position tokens. A
\* blank first line splits to the single token "".
FirstLines ==
    {[exists |-> TRUE, label |-> l, toks |-> t] :
        l \in Labels, t \in SeqsUpTo(PositionToks, MaxCols)}
        \cup {NoLine}

\* a data line after strip and split: the sample name and the call tokens
DataLines ==
    {[name |-> n, toks |-> t] :
        n \in PedSampleNames, t \in SeqsUpTo(CallToks, MaxCols + 1)}

\* d[k] = v on a dict that is only looked up
DictSet(d, k, v) == [x \in DOMAIN d \cup {k} |-> IF x = k THEN v ELSE d[x]]

\* pos_indices.setdefault(pos, []).append(idx)
SetDefaultAppend(d, pos, idx) ==
    IF \E j \in 1..Len(d) : d[j][1] = pos
    THEN [j \in 1..Len(d) |->
            IF d[j][1] = pos THEN <<pos, Append(d[j][2], idx)>> ELSE d[j]]
    ELSE Append(d, <<pos, <<idx>>>>)

\* for idx, pos in enumerate(positions): ... (columns are numbered from 1 here)
RECURSIVE PosIndicesFrom(_, _, _)
PosIndicesFrom(posns, idx, d) ==
    IF idx > Len(posns) THEN d
    ELSE PosIndicesFrom(posns, idx + 1, SetDefaultAppend(d, posns[idx], idx))

PosIndices(posns) == PosIndicesFrom(posns, 1, <<>>)

\* the merge of one line's values: for pos, idxs in pos_indices.items():
\*     merged[pos] = int(any(values[i] for i in idxs))
MergedLastWins(pidx, values) ==
    [pos \in {pidx[j][1] : j \in 1..Len(pidx)} |->
        LET e == CHOOSE j \in 1..Len(pidx) : pidx[j][1] = pos
        IN  values[pidx[e][2][Len(pidx[e][2])]]]

MergedMax(pidx, values) ==
    [pos \in {pidx[j][1] : j \in 1..Len(pidx)} |->
        LET e == CHOOSE j \in 1..Len(pidx) : pidx[j][1] = pos
            vs == {values[pidx[e][2][k]] : k \in 1..Len(pidx[e][2])}
        IN  CHOOSE v \in vs : \A w \in vs : w <= v]

Merged(pidx, values) ==
    [pos \in {pidx[j][1] : j \in 1..Len(pidx)} |->
        LET e == CHOOSE j \in 1..Len(pidx) : pidx[j][1] = pos
        IN  IF \E k \in 1..Len(pidx[e][2]) : values[pidx[e][2][k]] # 0
            THEN 1 ELSE 0]

\* one iteration of "for line in lines[1:]": the table after it
LoopBodyLenLt(sd, posns, pidx, ln) ==
    IF Len(ln.toks) + 1 < Len(posns) + 1 THEN sd
    ELSE IF ~AllInt(ln.toks) THEN sd
    ELSE DictSet(sd, ln.name, Merged(pidx, IntValues(ln.toks)))

LoopBody(sd, posns, pidx, ln) ==
    IF Len(ln.toks) + 1 # Len(posns) + 1 THEN sd          \* printed, continue
    ELSE IF ~AllInt(ln.toks) THEN sd                      \* except ValueError
    ELSE DictSet(sd, ln.name, Merged(pidx, IntValues(ln.toks)))

\* parts[0].lower() != ped_header.lower()
LabelMatchesExact(label, hdr) == label = hdr

LabelMatches(label, hdr) == Lower(label) = Lower(hdr)

InitPed ==
    /\ pc = "ped_start"
    /\ first_line \in FirstLines
    /\ ped_header \in {"Position", "Pos"}
    /\ positions = <<>>
    /\ pos_indices = <<>>
    /\ line = NoDataLine
    /\ sample_data = <<>>
    /\ pairs = <<>>
    /\ IdlePairs /\ IdleMatch /\ IdleCLI /\ IdleTree

\* if not lines: raise ValueError("ped.txt is empty")
PedEmpty ==
    /\ pc = "ped_start"
    /\ ~first_line.exists
    /\ pc' = "ped_raised"
    /\ UNCHANGED <<pedVars, pairVars, matchVars, cliVars, treeVars>>

\* the first column is not the expected label: raise ValueError
PedBadLabel ==
    /\ pc = "ped_start"
    /\ first_line.exists
    /\ ~LabelMatches(first_line.label, ped_header)
    /\ pc' = "ped_raised"
    /\ UNCHANGED <<pedVars, pairVars, matchVars, cliVars, treeVars>>

\* positions = [int(pos) for pos in parts[1:]] raises ValueError
PedBadPosition ==
    /\ pc = "ped_start"
    /\ first_line.exists
    /\ LabelMatches(first_line.label, ped_header)
    /\ ~AllInt(first_line.toks)
    /\ pc' = "ped_raised"
    /\ UNCHANGED <<pedVars, pairVars, matchVars, cliVars, treeVars>>

\* the header is accepted: positions and pos_indices are built
PedHeader ==
    /\ pc = "ped_start"
    /\ first_line.exists
    /\ LabelMatches(first_line.label, ped_header)
    /\ AllInt(first_line.toks)
    /\ positions' = IntValues(first_line.toks)
    /\ pos_indices' = PosIndices(IntValues(first_line.toks))
    /\ pc' = "ped_loop"
    /\ UNCHANGED <<first_line, ped_header, line, sample_data>>
    /\ UNCHANGED <<pairVars, matchVars, cliVars, treeVars>>

\* for line in lines[1:]: the loop variable is bound to the next line of the file
PedFetch ==
    /\ pc = "ped_loop"
    /\ \E ln \in DataLines : line' = ln
    /\ pc' = "ped_body"
    /\ UNCHANGED <<first_line, ped_header, positions, pos_indices, sample_data>>
    /\ UNCHANGED <<pairVars, matchVars, cliVars, treeVars>>

\* the body of the loop on the current line
PedBody ==
    /\ pc = "ped_body"
    /\ sample_data' = LoopBody(sample_data, positions, pos_indices, line)
    /\ pc' = "ped_iter_end"
    /\ UNCHANGED <<first_line, ped_header, positions, pos_indices, line>>
    /\ UNCHANGED <<pairVars, matchVars, cliVars, treeVars>>

\* back to the head of the loop; the old value of the loop variable is never
\* read again
PedIterEnd ==
    /\ pc = "ped_iter_end"
    /\ line' = NoDataLine
    /\ pc' = "ped_loop"
    /\ UNCHANGED <<first_line, ped_header, positions, pos_indices, sample_data>>
    /\ UNCHANGED <<pairVars, matchVars, cliVars, treeVars>>

\* the file has no further line: return sample_data
PedReturn ==
    /\ pc = "ped_loop"
    /\ pc' = "ped_done"
    /\ UNCHANGED <<pedVars, pairVars, matchVars, cliVars, treeVars>>

NextPed ==
    \/ PedEmpty
    \/ PedBadLabel
    \/ PedBadPosition
    \/ PedHeader
    \/ PedFetch
    \/ PedBody
    \/ PedIterEnd
    \/ PedReturn

SpecPed == InitPed /\ [][NextPed]_vars

(***************************************************************************)
(* Properties of read_ped_file                                             *)
(***************************************************************************)
\* the columns of the header that hold position pos
ColumnsOf(pos) == {i \in 1..Len(positions) : positions[i] = pos}

\* the header positions that occur in several columns
Duplicated == {pos \in Range(positions) : Cardinality(ColumnsOf(pos)) > 1}

\* a data line the contract rejects: wrong token count, or a call token that
\* is not an integer
Malformed(ln) ==
    \/ Len(ln.toks) + 1 # Len(positions) + 1
    \/ \E i \in 1..Len(ln.toks) : ~ln.toks[i].int

\* a table of the shape read_ped_file returns: every record has the same key
\* set and holds calls 0 and 1 only
IsGenotypeTable(sd) ==
    \E K \in SUBSET HeaderPositions : \A n \in DOMAIN sd : sd[n] \in [K -> {0, 1}]

PedTableShape == IsGenotypeTable(sample_data)

\* C4 as stated: for an accepted line, the record has one entry per distinct
\* header position, and for a position that occurs in several columns the
\* stored call is positive iff some call of the line in the columns of that
\* position is positive (greater than zero).
C4_MergePositiveAsStated ==
    (pc = "ped_iter_end" /\ ~Malformed(line)) =>
        LET rec == sample_data[line.name]
            vals == IntValues(line.toks)
        IN  /\ DOMAIN rec = Range(positions)
            /\ \A pos \in Duplicated :
                 (rec[pos] > 0) <=> (\E i \in ColumnsOf(pos) : vals[i] > 0)

\* C4 amended: for an accepted line, the record has one entry per distinct
\* header position, and for a position that occurs in several columns the
\* stored call is positive (it is 1, else 0) iff some call of the line in the
\* columns of that position is non-zero.
C4_MergeNonZero ==
    (pc = "ped_iter_end" /\ ~Malformed(line)) =>
        LET rec == sample_data[line.name]
            vals == IntValues(line.toks)
        IN  /\ DOMAIN rec = Range(positions)
            /\ \A pos \in Duplicated :
                 /\ rec[pos] \in {0, 1}
                 /\ (rec[pos] > 0) <=> (\E i \in ColumnsOf(pos) : vals[i] # 0)

\* a position held by two columns, an accepted line whose calls there are
\* non-zero but none greater than zero, and the merged call 1
C4_Witness ==
    /\ pc = "ped_iter_end"
    /\ ~Malformed(line)
    /\ \E pos \in Duplicated :
         /\ \E i \in ColumnsOf(pos) : line.toks[i].val = -1
         /\ \E i \in ColumnsOf(pos) : line.toks[i].val = 0
         /\ sample_data[line.name][pos] = 1

\* C5: an iteration on a malformed line leaves the genotype table exactly as
\* it was and goes on to the next iteration instead of aborting; an iteration
\* on a well-formed line stores that line's sample, whatever was skipped before.
C5_MalformedLineSkipped ==
    [][pc = "ped_body" =>
        /\ pc' = "ped_iter_end"
        /\ Malformed(line) => sample_data' = sample_data
        /\ ~Malformed(line) =>
             /\ DOMAIN sample_data' = DOMAIN sample_data \cup {line.name}
             /\ DOMAIN sample_data'[line.name] = Range(positions)
             /\ \A n \in DOMAIN sample_data \ {line.name} :
                  sample_data'[n] = sample_data[n]]_vars

\* a line with the right token count and a non-integer call was skipped while
\* the table holds another sample only
C5_Witness ==
    /\ pc = "ped_iter_end"
    /\ Len(line.toks) = Len(positions)
    /\ \E i \in 1..Len(line.toks) : ~line.toks[i].int
    /\ sample_data # <<>>
    /\ line.name \notin DOMAIN sample_data

\* the inputs on which the contract says read_ped_file fails
PedFormatError ==
    \/ ~first_line.exists
    \/ Lower(first_line.label) # Lower(ped_header)
    \/ \E i \in 1..Len(first_line.toks) : ~first_line.toks[i].int

\* C7: read_ped_file raises, and returns no table, exactly when the file is
\* empty, the first header token differs case-insensitively from the expected
\* label, or a header position token is not an integer.
C7_FormatErrors ==
    pc # "ped_start" =>
        /\ (pc = "ped_raised") <=> PedFormatError
        /\ pc = "ped_raised" => sample_data = <<>>

\* the label is accepted in another case than the expected one, and the run
\* fails on a header position that is not an integer
C7_Witness ==
    /\ pc = "ped_raised"
    /\ first_line.exists
    /\ first_line.label # ped_header
    /\ Lower(first_line.label) = Lower(ped_header)
    /\ \E i \in 1..Len(first_line.toks) : ~first_line.toks[i].int

(***************************************************************************)
(* find_matching_pairs and summarize_matches (matching.py)                 *)
(***************************************************************************)
SampleNames == 1..MaxSamples
PairPositions == {10, 20, 30}

\* the tables read_ped_file returns (PedTableShape): records over one key set,
\* calls 0 and 1
GenotypeTables ==
    UNION {[N -> [HeaderPositions -> {0, 1}]] : N \in SUBSET SampleNames}

\* the pairs of the lists: both orders of two positions, a position missing from
\* the records in either place, twice the same position
PairUniverse == {<<10, 10>>, <<10, 20>>, <<20, 10>>, <<10, 30>>, <<30, 10>>}

\* the lists read_recombinant_file returns: any pairs, in any order, repeated
PairLists == SeqsUpTo(PairUniverse, MaxPairs)

\* sample_dict.get(pos, 0)
GetDefaultOne(rec, pos) == IF pos \in DOMAIN rec THEN rec[pos] ELSE 1

Get(rec, pos) == IF pos \in DOMAIN rec THEN rec[pos] ELSE 0

\* the order of Python tuples of two integers
PairLE(a, b) == a[1] < b[1] \/ (a[1] = b[1] /\ a[2] <= b[2])

RECURSIVE Insert(_, _)
Insert(x, s) ==
    IF s = <<>> THEN <<x>>
    ELSE IF PairLE(x, s[1]) THEN <<x>> \o s
    ELSE <<s[1]>> \o Insert(x, Tail(s))

\* sorted(matching_pairs)
RECURSIVE SortedPairsFrom(_, _)
SortedPairsFrom(s, acc) ==
    IF s = <<>> THEN acc ELSE SortedPairsFrom(Tail(s), Insert(s[1], acc))

SortedPairsNoSort(s) == s

SortedPairs(s) == SortedPairsFrom(s, <<>>)

\* sorted(sample_data.keys())
RECURSIVE SortedNamesDescending(_)
SortedNamesDescending(S) ==
    IF S = {} THEN <<>>
    ELSE LET m == CHOOSE x \in S : \A y \in S : y <= x
         IN  <<m>> \o SortedNamesDescending(S \ {m})

RECURSIVE SortedNames(_)
SortedNames(S) ==
    IF S = {} THEN <<>>
    ELSE LET m == CHOOSE x \in S : \A y \in S : x <= y
         IN  <<m>> \o SortedNames(S \ {m})

\* the inner loop: the pairs of the list whose two calls are 1, in list order
MatchingPairs(rec, ps) ==
    SelectSeq(ps, LAMBDA p : Get(rec, p[1]) = 1 /\ Get(rec, p[2]) = 1)

\* find_matching_pairs(sample_data, pairs): the ordered dict it returns
find_matching_pairs(sd, ps) ==
    LET names == SortedNames(DOMAIN sd)
    IN  [i \in 1..Len(names) |->
            <<names[i], SortedPairs(MatchingPairs(sd[names[i]], ps))>>]

\* the key under which summarize_matches files a sample
GroupKeyFirstPair(matching_pairs) ==
    IF matching_pairs = <<>> THEN <<>> ELSE <<matching_pairs[1]>>

GroupKey(matching_pairs) == matching_pairs

\* pairs_to_samples.setdefault(matching_pairs, []).append(sample_name)
GroupAppend(d, key, name) ==
    IF \E j \in 1..Len(d) : d[j][1] = key
    THEN [j \in 1..Len(d) |->
            IF d[j][1] = key THEN <<key, Append(d[j][2], name)>> ELSE d[j]]
    ELSE Append(d, <<key, <<name>>>>)

\* for sample_name, matching_pairs in sample_to_pairs.items(): ...
RECURSIVE GroupsFrom(_, _, _)
GroupsFrom(s2p, i, d) ==
    IF i > Len(s2p) THEN d
    ELSE GroupsFrom(s2p, i + 1, GroupAppend(d, GroupKey(s2p[i][2]), s2p[i][1]))

Groups(s2p) == GroupsFrom(s2p, 1, <<>>)

\* the rows of one group; "Pair Identities" holds the pairs the text names and
\* "Shared With" the names the text joins
GroupRows(pair_set, samples) ==
    [k \in 1..Len(samples) |->
        [Sample |-> samples[k],
         NumPairs |-> Len(pair_set),
         UniqueRecombinant |-> IF Len(samples) = 1 THEN "Yes" ELSE "No",
         PairIdentities |-> pair_set,
         SharedWith |-> IF Len(samples) = 1 THEN <<>> ELSE samples]]

\* for pair_set, samples in pairs_to_samples.items(): rows.append(...)
RECURSIVE RowsFrom(_, _, _)
RowsFrom(p2s, j, rows) ==
    IF j > Len(p2s) THEN rows
    ELSE RowsFrom(p2s, j + 1, rows \o GroupRows(p2s[j][1], p2s[j][2]))

Rows(p2s) == RowsFrom(p2s, 1, <<>>)

Init ==
    /\ pc = "match_start"
    /\ sample_data \in GenotypeTables
    /\ pairs \in PairLists
    /\ IdlePed /\ IdlePairs /\ IdleMatch /\ IdleCLI /\ IdleTree

FindMatchingPairs ==
    /\ pc = "match_start"
    /\ sample_to_pairs' = find_matching_pairs(sample_data, pairs)
    /\ pc' = "matched"
    /\ UNCHANGED <<pairs_to_samples, summary>>
    /\ UNCHANGED <<pedVars, pairVars, cliVars, treeVars>>

SummarizeMatches ==
    /\ pc = "matched"
    /\ pairs_to_samples' = Groups(sample_to_pairs)
    /\ summary' = Rows(Groups(sample_to_pairs))
    /\ pc' = "summarized"
    /\ UNCHANGED sample_to_pairs
    /\ UNCHANGED <<pedVars, pairVars, cliVars, treeVars>>

Next ==
    \/ FindMatchingPairs
    \/ SummarizeMatches

Spec == Init /\ [][Next]_vars

(***************************************************************************)
(* Properties of the matcher and the summarizer                            *)
(***************************************************************************)
\* sample S has a positive call at pos; a position missing from the record
\* counts as a non-positive call
PositiveCall(S, pos) == pos \in DOMAIN sample_data[S] /\ sample_data[S][pos] > 0

\* the entry of sample S in sample_to_pairs
MatchSetOf(S) ==
    LET i == CHOOSE k \in 1..Len(sample_to_pairs) : sample_to_pairs[k][1] = S
    IN  sample_to_pairs[i][2]

\* the samples filed in group j
Members(j) == Range(pairs_to_samples[j][2])

\* the groups that hold sample S
GroupsOf(S) == {j \in 1..Len(pairs_to_samples) : S \in Members(j)}

\* the rows whose sample is S
RowsOf(S) == {i \in 1..Len(summary) : summary[i].Sample = S}

\* s is in ascending order of (P1, P2)
Ascending(s) == \A i \in 1..Len(s) - 1 : PairLE(s[i], s[i + 1])

\* the reorderings of a list
PermutationsOf(s) ==
    {[i \in 1..Len(s) |-> s[f[i]]] : f \in Permutations(1..Len(s))}

\* C1: every sample of the table has exactly one match-set, which contains a
\* pair iff the pair is in the pair list and the sample's calls at both of its
\* positions are positive, a missing position counting as not positive.
C1_SoundAndComplete ==
    pc # "match_start" =>
        /\ {sample_to_pairs[k][1] : k \in 1..Len(sample_to_pairs)} = DOMAIN sample_data
        /\ Len(sample_to_pairs) = Cardinality(DOMAIN sample_data)
        /\ \A S \in DOMAIN sample_data :
             \A p \in PairPositions \X PairPositions :
                p \in Range(MatchSetOf(S)) <=>
                    /\ p \in Range(pairs)
                    /\ PositiveCall(S, p[1])
                    /\ PositiveCall(S, p[2])

\* a sample matches one pair of the list and misses another of the list whose
\* second position is not in its record
C1_Witness ==
    /\ pc = "matched"
    /\ \E S \in DOMAIN sample_data :
         \E p, q \in Range(pairs) :
            /\ p \in Range(MatchSetOf(S))
            /\ q \notin Range(MatchSetOf(S))
            /\ PositiveCall(S, q[1])
            /\ q[2] \notin DOMAIN sample_data[S]

\* C2: the groups partition the samples (each sample is in exactly one group
\* and in exactly one row, and nothing else is); two samples share a group iff
\* their match-sets are equal as sets; the samples without a match share one.
C2_Partition ==
    pc = "summarized" =>
        /\ \A S \in DOMAIN sample_data :
             /\ Cardinality(GroupsOf(S)) = 1
             /\ Cardinality(RowsOf(S)) = 1
        /\ \A j \in 1..Len(pairs_to_samples) :
             /\ Members(j) \subseteq DOMAIN sample_data
             /\ Len(pairs_to_samples[j][2]) = Cardinality(Members(j))
        /\ Len(summary) = Cardinality(DOMAIN sample_data)
        /\ \A S, T \in DOMAIN sample_data :
             (GroupsOf(S) = GroupsOf(T)) <=>
                 (Range(MatchSetOf(S)) = Range(MatchSetOf(T)))
        /\ \A S, T \in DOMAIN sample_data :
             (MatchSetOf(S) = <<>> /\ MatchSetOf(T) = <<>>) =>
                 GroupsOf(S) = GroupsOf(T)

\* two samples share a group of two matched pairs, a third sample has a
\* subset of these pairs and a group of its own
C2_Witness ==
    /\ pc = "summarized"
    /\ \E S, T, U \in DOMAIN sample_data :
         /\ S # T
         /\ GroupsOf(S) = GroupsOf(T)
         /\ GroupsOf(U) # GroupsOf(S)
         /\ Cardinality(Range(MatchSetOf(S))) = 2
         /\ Cardinality(Range(MatchSetOf(U))) = 1
         /\ Range(MatchSetOf(U)) \subseteq Range(MatchSetOf(S))

\* C3: in every row, Shared With lists exactly the members of the row's group
\* other than the row's own sample, and is empty exactly for a group of one.
C3_SharedWithOthers ==
    pc = "summarized" =>
        \A i \in 1..Len(summary) :
            LET S == summary[i].Sample
                g == CHOOSE j \in 1..Len(pairs_to_samples) : S \in Members(j)
            IN  /\ Range(summary[i].SharedWith) = Members(g) \ {S}
                /\ (summary[i].SharedWith = <<>>) <=> (Members(g) = {S})

\* what the code does: Shared With is empty for a group of one and lists every
\* member of the group, the row's own sample included, otherwise
SharedWithWholeGroup ==
    pc = "summarized" =>
        \A i \in 1..Len(summary) :
            LET S == summary[i].Sample
                g == CHOOSE j \in 1..Len(pairs_to_samples) : S \in Members(j)
            IN  /\ (summary[i].SharedWith = <<>>) <=> (Members(g) = {S})
                /\ Members(g) # {S} => Range(summary[i].SharedWith) = Members(g)

\* the smallest name among the samples whose match-set is that of S
FirstOfGroup(S) ==
    CHOOSE T \in DOMAIN sample_data :
        /\ MatchSetOf(T) = MatchSetOf(S)
        /\ \A U \in DOMAIN sample_data :
             MatchSetOf(U) = MatchSetOf(S) => T <= U

\* C8: the groups and the row sequence are fixed by the inputs: the groups are
\* in the order in which their match-set is first met in sorted-name order,
\* each group lists its samples in sorted-name order, each sample has one row,
\* the rows of a group are in sorted-name order and the rows of an earlier
\* group come first.
C8_RowOrder ==
    pc = "summarized" =>
        /\ \A j, k \in 1..Len(pairs_to_samples) :
             j < k => pairs_to_samples[j][2][1] < pairs_to_samples[k][2][1]
        /\ \A j \in 1..Len(pairs_to_samples) :
             \A a, b \in 1..Len(pairs_to_samples[j][2]) :
                a < b => pairs_to_samples[j][2][a] < pairs_to_samples[j][2][b]
        /\ {summary[i].Sample : i \in 1..Len(summary)} = DOMAIN sample_data
        /\ \A i, j \in 1..Len(summary) :
             i < j =>
                LET S == summary[i].Sample
                    T == summary[j].Sample
                IN  IF MatchSetOf(S) = MatchSetOf(T)
                    THEN S < T
                    ELSE FirstOfGroup(S) < FirstOfGroup(T)

\* the rows are not in sorted-name order: a group of the first and the last
\* sample comes before the row of the sample between them
C8_Witness ==
    /\ pc = "summarized"
    /\ Len(summary) = 3
    /\ summary[1].Sample < summary[3].Sample
    /\ summary[3].Sample < summary[2].Sample
    /\ summary[1].SharedWith # <<>>

\* C9: on every reordering of the pair list find_matching_pairs returns the
\* same match-sets, and every match-set is in ascending order of (P1, P2).
C9_PairOrderIndependent ==
    pc # "match_start" =>
        /\ \A q \in PermutationsOf(pairs) :
             find_matching_pairs(sample_data, q) = sample_to_pairs
        /\ \A k \in 1..Len(sample_to_pairs) : Ascending(sample_to_pairs[k][2])

\* a sample matches two different pairs that the list holds in descending order
C9_Witness ==
    /\ pc = "matched"
    /\ Len(pairs) = 2
    /\ ~PairLE(pairs[1], pairs[2])
    /\ \E S \in DOMAIN sample_data : Len(MatchSetOf(S)) = 2

(***************************************************************************)
(* read_recombinant_file (matching.py)                                     *)
(***************************************************************************)
\* A cell of the data frame is [num, val]: num says whether int() and float()
\* accept it; val is the number, in tenths for the position columns
NumCell(v) == [num |-> TRUE, val |-> v]
BadCell == [num |-> FALSE, val |-> 0]

L1Cells == {NumCell(100), NumCell(205), BadCell}
L2Cells == {NumCell(200), BadCell}
CIhiCells == {NumCell(-1), NumCell(0), NumCell(1), BadCell}
Thresholds == {-1, 0, 1}

DataFrameRows == [L1 : L1Cells, L2 : L2Cells, CIhi : CIhiCells]

RequiredColumns == {"L1", "L2", "CIhi"}

\* int(x) of a non-negative number given in tenths: truncation
IntOfTenths(v) == v \div 10

\* int(row["L1"]), int(row["L2"]) and float(row["CIhi"]) raise nothing
Parses(r) == r.L1.num /\ r.L2.num /\ r.CIhi.num

\* the truth value Python gives the CIHi_filter argument
Truthy(f) == ~f.none /\ f.val # 0

\* if CIHi_filter and cihi < CIHi_filter: continue
Filtered(f, cihi) == Truthy(f) /\ cihi < f.val

InitPairs ==
    /\ pc = "pairs_start"
    /\ columns \in {RequiredColumns, {"L1", "L2"}}
    /\ df \in SeqsUpTo(DataFrameRows, MaxRows)
    /\ CIHi_filter \in {None} \cup {Some(t) : t \in Thresholds}
    /\ row = 1
    /\ pairs = <<>>
    /\ sample_data = <<>>
    /\ IdlePed /\ IdleMatch /\ IdleCLI /\ IdleTree

\* a required column is absent: raise ValueError
PairsMissingColumn ==
    /\ pc = "pairs_start"
    /\ ~(RequiredColumns \subseteq columns)
    /\ pc' = "pairs_raised"
    /\ UNCHANGED <<pairVars, sample_data, pedVars, matchVars, cliVars, treeVars>>

PairsColumnsPresent ==
    /\ pc = "pairs_start"
    /\ RequiredColumns \subseteq columns
    /\ pc' = "pairs_loop"
    /\ UNCHANGED <<pairVars, sample_data, pedVars, matchVars, cliVars, treeVars>>

\* a cell of the row does not parse: except (ValueError, KeyError): continue
PairsSkipUnparsed ==
    /\ pc = "pairs_loop"
    /\ row <= Len(df)
    /\ ~Parses(df[row])
    /\ row' = row + 1
    /\ UNCHANGED <<pc, columns, df, CIHi_filter, pairs>>
    /\ UNCHANGED <<pedVars, matchVars, cliVars, treeVars>>

\* the filter drops the row
PairsSkipFiltered ==
    /\ pc = "pairs_loop"
    /\ row <= Len(df)
    /\ Parses(df[row])
    /\ Filtered(CIHi_filter, df[row].CIhi.val)
    /\ row' = row + 1
    /\ UNCHANGED <<pc, columns, df, CIHi_filter, pairs>>
    /\ UNCHANGED <<pedVars, matchVars, cliVars, treeVars>>

\* pairs.append((l1, l2))
PairsAppend ==
    /\ pc = "pairs_loop"
    /\ row <= Len(df)
    /\ Parses(df[row])
    /\ ~Filtered(CIHi_filter, df[row].CIhi.val)
    /\ pairs' = Append(pairs,
                  <<IntOfTenths(df[row].L1.val), IntOfTenths(df[row].L2.val)>>)
    /\ row' = row + 1
    /\ UNCHANGED <<pc, columns, df, CIHi_filter>>
    /\ UNCHANGED <<pedVars, matchVars, cliVars, treeVars>>

\* return pairs
PairsReturn ==
    /\ pc = "pairs_loop"
    /\ row > Len(df)
    /\ pc' = "pairs_done"
    /\ UNCHANGED <<pairVars, sample_data, pedVars, matchVars, cliVars, treeVars>>

NextPairs ==
    \/ PairsMissingColumn
    \/ PairsColumnsPresent
    \/ PairsSkipUnparsed
    \/ PairsSkipFiltered
    \/ PairsAppend
    \/ PairsReturn

SpecPairs == InitPairs /\ [][NextPairs]_vars

(***************************************************************************)
(* Properties of read_recombinant_file                                     *)
(***************************************************************************)
\* the pair of a row that parses
PairOfRow(r) == <<IntOfTenths(r.L1.val), IntOfTenths(r.L2.val)>>

\* the rows that parse and whose bound is at or above the threshold t
RowsAtOrAbove(t) == {i \in 1..Len(df) : Parses(df[i]) /\ df[i].CIhi.val >= t}

\* the returned list holds the pairs of the rows of R and nothing else
HoldsExactly(R) ==
    /\ Len(pairs) = Cardinality(R)
    /\ \A i \in R : PairOfRow(df[i]) \in Range(pairs)
    /\ \A p \in Range(pairs) : \E i \in R : PairOfRow(df[i]) = p

\* C6: with a numeric threshold, whatever its value, the returned list holds
\* no pair from a row whose bound is below the threshold and the pair of every
\* parseable row whose bound is at or above it.
C6_ThresholdFilter ==
    (pc = "pairs_done" /\ ~CIHi_filter.none) =>
        HoldsExactly(RowsAtOrAbove(CIHi_filter.val))

\* what the code does: a threshold of 0 filters nothing, every other numeric
\* threshold filters as documented
ThresholdFilterOfCode ==
    pc = "pairs_done" =>
        IF CIHi_filter.none \/ CIHi_filter.val = 0
        THEN HoldsExactly({i \in 1..Len(df) : Parses(df[i])})
        ELSE HoldsExactly(RowsAtOrAbove(CIHi_filter.val))

(***************************************************************************)
(* The command-line entry points (run_matching.py, SNPMatching.py)         *)
(***************************************************************************)
Programs == {"run_matching", "SNPMatching"}
PathArgs == {"in.txt", "out.xlsx"}

\* sys.argv: the script name and the arguments after it
ArgVectors(prog) == {<<prog>> \o a : a \in SeqsUpTo(PathArgs, MaxArgs)}

\* the value len(sys.argv) must have: 4 in run_matching.py, 3 in SNPMatching.py
ExpectedArgc(prog) == IF prog = "run_matching" THEN 4 ELSE 3

\* the usage text of the script
UsageText(prog) ==
    IF prog = "run_matching"
    THEN "Usage: python run_matching.py <ped_file> <recombinant_file> <alignment_file>"
    ELSE "Usage: python SNPMatching.py ped.txt RecombinantSNPs.txt"

\* the default of main's output_excel parameter
DefaultOutput(prog) ==
    IF prog = "run_matching"
    THEN "Data/OutputFiles/matches_output.xlsx"
    ELSE "matches_output.xlsx"

\* if len(sys.argv) != N: print usage, sys.exit(1)
ArgCountAtLeast(prog, av) == Len(av) >= ExpectedArgc(prog)

ArgCountOk(prog, av) == Len(av) = ExpectedArgc(prog)

InitCLI ==
    /\ pc = "cli_start"
    /\ program \in Programs
    /\ argv \in ArgVectors(program)
    /\ exit_status = -1
    /\ stdout = <<>>
    /\ main_call = NoCall
    /\ sample_data = <<>>
    /\ pairs = <<>>
    /\ IdlePed /\ IdlePairs /\ IdleMatch /\ IdleTree

\* wrong argument count: print the usage text and sys.exit(1)
CliUsage ==
    /\ pc = "cli_start"
    /\ ~ArgCountOk(program, argv)
    /\ stdout' = Append(stdout, UsageText(program))
    /\ exit_status' = 1
    /\ pc' = "cli_exited"
    /\ UNCHANGED <<program, argv, main_call>>
    /\ UNCHANGED <<sample_data, pairs, pedVars, pairVars, matchVars, treeVars>>

\* main(sys.argv[1], ...): the workflow is called on the positional paths, with
\* the default output path
CliMain ==
    /\ pc = "cli_start"
    /\ ArgCountOk(program, argv)
    /\ main_call' = [ran |-> TRUE,
                     args |-> SubSeq(argv, 2, ExpectedArgc(program)),
                     output |-> DefaultOutput(program)]
    /\ pc' = "cli_main"
    /\ UNCHANGED <<program, argv, exit_status, stdout>>
    /\ UNCHANGED <<sample_data, pairs, pedVars, pairVars, matchVars, treeVars>>

NextCLI ==
    \/ CliUsage
    \/ CliMain

SpecCLI == InitCLI /\ [][NextCLI]_vars

(***************************************************************************)
(* Properties of the entry points                                          *)
(***************************************************************************)
\* the number of input paths: genotype file and pair file, and the alignment
\* file in the extended workflow
InputPaths(prog) == IF prog = "run_matching" THEN 3 ELSE 2

\* the entry point printed its usage text and exited with a non-zero status
\* without running the workflow
UsageExit ==
    /\ ~main_call.ran
    /\ stdout = <<UsageText(program)>>
    /\ exit_status > 0

\* C10 as stated: with the input paths, or the input paths and an output path
\* after them, the workflow runs (on that output path if given); with any other
\* argument count the usage text is printed and the exit status is non-zero.
C10_OptionalOutputAsStated ==
    pc # "cli_start" =>
        LET n == InputPaths(program)
            k == Len(argv) - 1
        IN  IF k = n \/ k = n + 1
            THEN /\ main_call.ran
                 /\ main_call.args = SubSeq(argv, 2, n + 1)
                 /\ k = n + 1 => main_call.output = argv[n + 2]
                 /\ exit_status = -1
            ELSE UsageExit

\* C10 amended: the workflow runs exactly when the arguments are the input
\* paths and nothing else, and then on the default output path; with any other
\* argument count, an output path after the input paths included, the usage
\* text is printed and the exit status is non-zero.
C10_ExactArgumentCount ==
    pc # "cli_start" =>
        LET n == InputPaths(program)
            k == Len(argv) - 1
        IN  IF k = n
            THEN /\ main_call.ran
                 /\ main_call.args = SubSeq(argv, 2, n + 1)
                 /\ main_call.output = DefaultOutput(program)
                 /\ exit_status = -1
                 /\ stdout = <<>>
            ELSE UsageExit

\* the input paths and one output path after them: usage and exit status 1
C10_Witness ==
    /\ pc = "cli_exited"
    /\ Len(argv) - 1 = InputPaths(program) + 1
    /\ UsageExit

(***************************************************************************)
(* The tables read_ped_file hands to the matcher                           *)
(***************************************************************************)
\* C12: whatever lines were processed, every stored call is 0 or 1 and every
\* record has the key set of the distinct header positions; the record of a
\* line just accepted holds 1 at a position exactly when one of the line's
\* calls in the columns of that position is a non-zero integer; hence on every
\* record the matcher's test get(pos, 0) == 1 agrees with get(pos, 0) != 0.
C12_CallsAreZeroOrOne ==
    /\ \A n \in DOMAIN sample_data :
         /\ DOMAIN sample_data[n] = Range(positions)
         /\ \A pos \in DOMAIN sample_data[n] : sample_data[n][pos] \in {0, 1}
         /\ \A pos \in PairPositions :
              (Get(sample_data[n], pos) = 1) <=> (Get(sample_data[n], pos) # 0)
    /\ (pc = "ped_iter_end" /\ ~Malformed(line)) =>
         \A pos \in Range(positions) :
            (sample_data[line.name][pos] = 1) <=>
                (\E i \in ColumnsOf(pos) : IntValues(line.toks)[i] # 0)

\* two samples are stored; the line just accepted has the call -1 in the only
\* column of a position, stored as 1, and the call 0 at another position
C12_Witness ==
    /\ pc = "ped_iter_end"
    /\ ~Malformed(line)
    /\ Cardinality(DOMAIN sample_data) = 2
    /\ \E pos \in Range(positions) :
         /\ Cardinality(ColumnsOf(pos)) = 1
         /\ \A i \in ColumnsOf(pos) : line.toks[i].val = -1
         /\ sample_data[line.name][pos] = 1
    /\ \E pos \in Range(positions) : sample_data[line.name][pos] = 0

(***************************************************************************)
(* color_tree (tree_utils.py)                                              *)
(***************************************************************************)
\* the identifiers EPI_ISL_<digits> of the model; 0 stands for None
EpiIds == {1, 2}
NoEpiId == 0

\* clade.name: None for an unnamed leaf, else a string in which
\* EPI_ISL_<digits> occurs (id > 0) or does not occur (id = 0)
LeafNames ==
    {[named |-> FALSE, id |-> NoEpiId]}
        \cup {[named |-> TRUE, id |-> k] : k \in EpiIds \cup {NoEpiId}}

ColorMarker == "&color=#FF0000"

\* the terminals of the tree as Phylo.read returns them: no comment yet
Trees == SeqsUpTo([name : LeafNames, comment : {""}], MaxLeaves)

\* the columns of the summary table that color_tree reads. A sample without an
\* identifier has epi_isl None; the rows "No" come from groups of two or more
SummaryTables ==
    {t \in SeqsUpTo([epi_isl : EpiIds \cup {NoEpiId},
                     UniqueRecombinant : {"Yes", "No"}], MaxDataRows) :
        Cardinality({i \in 1..Len(t) : t[i].UniqueRecombinant = "No"}) # 1}

\* re.search(r"EPI_ISL_\d+", name) raises TypeError when name is None
ExtractRaises(name) == ~name.named

\* extract_epi_isl(name) on a string
extract_epi_isl(name) == name.id

\* the rows of df whose index label is epi_isl
IndexRows(t, epi_isl) == {i \in 1..Len(t) : t[i].epi_isl = epi_isl}

\* unique_recombinant: df.at[epi_isl, "UniqueRecombinant"] if epi_isl in
\* df.index else None. df.at gives the cell for a label that occurs once and a
\* Series for a label that occurs several times; only a str has .lower()
HasLower(t, epi_isl) == Cardinality(IndexRows(t, epi_isl)) = 1

UniqueRecombinantOf(t, epi_isl) ==
    t[CHOOSE i \in IndexRows(t, epi_isl) : TRUE].UniqueRecombinant

InitTree ==
    /\ pc = "tree_start"
    /\ data \in SummaryTables
    /\ tree \in Trees
    /\ clade = 0
    /\ output_file = NotWritten
    /\ sample_data = <<>>
    /\ pairs = <<>>
    /\ IdlePed /\ IdlePairs /\ IdleMatch /\ IdleCLI

\* tree = Phylo.read(...); df = data.set_index("epi_isl")
TreeRead ==
    /\ pc = "tree_start"
    /\ clade' = 1
    /\ pc' = "tree_loop"
    /\ UNCHANGED <<data, tree, output_file>>
    /\ UNCHANGED <<sample_data, pairs, pedVars, pairVars, matchVars, cliVars>>

\* the leaf has no name: extract_epi_isl raises TypeError
TreeLeafUnnamed ==
    /\ pc = "tree_loop"
    /\ clade <= Len(tree)
    /\ ExtractRaises(tree[clade].name)
    /\ pc' = "tree_raised"
    /\ UNCHANGED <<treeVars, sample_data, pairs, pedVars, pairVars, matchVars, cliVars>>

\* if epi_isl is None: continue
TreeLeafNoId ==
    /\ pc = "tree_loop"
    /\ clade <= Len(tree)
    /\ ~ExtractRaises(tree[clade].name)
    /\ extract_epi_isl(tree[clade].name) = NoEpiId
    /\ clade' = clade + 1
    /\ UNCHANGED <<pc, data, tree, output_file>>
    /\ UNCHANGED <<sample_data, pairs, pedVars, pairVars, matchVars, cliVars>>

\* unique_recombinant is None or a Series: unique_recombinant.lower() raises
\* AttributeError
TreeLeafNoLower ==
    /\ pc = "tree_loop"
    /\ clade <= Len(tree)
    /\ ~ExtractRaises(tree[clade].name)
    /\ extract_epi_isl(tree[clade].name) # NoEpiId
    /\ ~HasLower(data, extract_epi_isl(tree[clade].name))
    /\ pc' = "tree_raised"
    /\ UNCHANGED <<treeVars, sample_data, pairs, pedVars, pairVars, matchVars, cliVars>>

\* unique_recombinant.lower() == "yes": clade.comment = "&color=#FF0000"
TreeLeafColor ==
    /\ pc = "tree_loop"
    /\ clade <= Len(tree)
    /\ ~ExtractRaises(tree[clade].name)
    /\ extract_epi_isl(tree[clade].name) # NoEpiId
    /\ HasLower(data, extract_epi_isl(tree[clade].name))
    /\ Lower(UniqueRecombinantOf(data, extract_epi_isl(tree[clade].name))) = "yes"
    /\ tree' = [tree EXCEPT ![clade].comment = ColorMarker]
    /\ clade' = clade + 1
    /\ UNCHANGED <<pc, data, output_file>>
    /\ UNCHANGED <<sample_data, pairs, pedVars, pairVars, matchVars, cliVars>>

\* the row is not "Yes": the leaf is left as it is
TreeLeafPlain ==
    /\ pc = "tree_loop"
    /\ clade <= Len(tree)
    /\ ~ExtractRaises(tree[clade].name)
    /\ extract_epi_isl(tree[clade].name) # NoEpiId
    /\ HasLower(data, extract_epi_isl(tree[clade].name))
    /\ Lower(UniqueRecombinantOf(data, extract_epi_isl(tree[clade].name))) # "yes"
    /\ clade' = clade + 1
    /\ UNCHANGED <<pc, data, tree, output_file>>
    /\ UNCHANGED <<sample_data, pairs, pedVars, pairVars, matchVars, cliVars>>

\* Phylo.write(tree, output_file, "newick")
TreeWrite ==
    /\ pc = "tree_loop"
    /\ clade > Len(tree)
    /\ output_file' = [written |-> TRUE, leaves |-> tree]
    /\ pc' = "tree_done"
    /\ UNCHANGED <<data, tree, clade>>
    /\ UNCHANGED <<sample_data, pairs, pedVars, pairVars, matchVars, cliVars>>

NextTree ==
    \/ TreeRead
    \/ TreeLeafUnnamed
    \/ TreeLeafNoId
    \/ TreeLeafNoLower
    \/ TreeLeafColor
    \/ TreeLeafPlain
    \/ TreeWrite

SpecTree == InitTree /\ [][NextTree]_vars

(***************************************************************************)
(* Properties of color_tree                                                *)
(***************************************************************************)
\* leaf i has an extractable identifier that maps to a row with uniqueness Yes
MapsToYes(i) ==
    /\ tree[i].name.named
    /\ tree[i].name.id # NoEpiId
    /\ \E r \in 1..Len(data) :
         data[r].epi_isl = tree[i].name.id /\ data[r].UniqueRecombinant = "Yes"

\* the written tree has the leaves of the input tree, with the colour marker
\* on the leaves that map to a row Yes and on no other leaf
WrittenAsClaimed ==
    /\ output_file.written
    /\ Len(output_file.leaves) = Len(tree)
    /\ \A i \in 1..Len(tree) :
         /\ output_file.leaves[i].name = tree[i].name
         /\ (output_file.leaves[i].comment = ColorMarker) <=> MapsToYes(i)

\* every leaf of the tree has a name
AllNamed == \A i \in 1..Len(tree) : tree[i].name.named

\* C11: for every tree (here: of named leaves) and every summary table
\* color_tree does not fail, and when it ends it has written the tree with the
\* colour marker on exactly the leaves whose extracted identifier maps to a row
\* with uniqueness Yes; leaves without an identifier and leaves whose
\* identifier has no row included.
C11_ColorTreeCompletes ==
    AllNamed =>
        /\ pc # "tree_raised"
        /\ pc = "tree_done" => WrittenAsClaimed

\* the leaves on which the loop of the code fails: no name, or an identifier
\* that labels no row or several rows of the table
FailsOn(i) ==
    \/ ~tree[i].name.named
    \/ /\ tree[i].name.id # NoEpiId
       /\ Cardinality(IndexRows(data, tree[i].name.id)) # 1

\* what the code does: it fails, writing nothing, iff some leaf is one of
\* those; otherwise it ends and has written the tree as claimed
ColorTreeOfCode ==
    /\ pc = "tree_raised" => (~output_file.written /\ \E i \in 1..Len(tree) : FailsOn(i))
    /\ pc = "tree_done" => (WrittenAsClaimed /\ \A i \in 1..Len(tree) : ~FailsOn(i))

\* a run that ends: a leaf without identifier, a leaf marked, a leaf not marked
ColorTreeEnds ==
    /\ pc = "tree_done"
    /\ \E i \in 1..Len(tree) : tree[i].name.id = NoEpiId
    /\ \E i \in 1..Len(tree) : output_file.leaves[i].comment = ColorMarker
    /\ \E i \in 1..Len(tree) :
         tree[i].name.id # NoEpiId /\ output_file.leaves[i].comment = ""

====
